---- MODULE Spec2Model ----
(***************************************************************************)
(* VerusHash native library (src/Native/libverushash): the Haraka512-like  *)
(* permutation in its two implementations, the single-shot sponge          *)
(* verushash_hash and the streaming context API                             *)
(* (create / update / finalize / destroy).                                  *)
(*                                                                         *)
(* Bytes are naturals 0..255.  A block, a buffer, a 512-bit state and a    *)
(* digest are functions from their byte offsets (0-based, as in the C      *)
(* code) to bytes; the target is x86 (cpuid.h, immintrin.h), so every      *)
(* word and lane load is little-endian.  A uint32 is kept as its two       *)
(* 16-bit halves [lo, hi] so that its arithmetic stays exact.              *)
(***************************************************************************)
EXTENDS Integers, Sequences, FiniteSets, TLC

VERUS_BLOCKSIZE == 64

VERUS_ROUNDS == 8

DIGEST_SIZE == 32

Byte == 0..255

\* A function constructor is evaluated once, into an explicit function.
Eager(f) == f @@ <<>>

\* ------------------------------------------------------------ bit operations

Bit(a, k) == (a \div (2 ^ k)) % 2

XorNib ==
    [a \in 0..15 |-> [b \in 0..15 |->
        ((Bit(a, 0) + Bit(b, 0)) % 2)
        + 2 * ((Bit(a, 1) + Bit(b, 1)) % 2)
        + 4 * ((Bit(a, 2) + Bit(b, 2)) % 2)
        + 8 * ((Bit(a, 3) + Bit(b, 3)) % 2)]]

OrBit(x, y) == IF x + y > 0 THEN 1 ELSE 0

OrNib ==
    [a \in 0..15 |-> [b \in 0..15 |->
        OrBit(Bit(a, 0), Bit(b, 0))
        + 2 * OrBit(Bit(a, 1), Bit(b, 1))
        + 4 * OrBit(Bit(a, 2), Bit(b, 2))
        + 8 * OrBit(Bit(a, 3), Bit(b, 3))]]

XorTab ==
    [a \in Byte |-> [b \in Byte |->
        16 * XorNib[a \div 16][b \div 16] + XorNib[a % 16][b % 16]]]

OrTab ==
    [a \in Byte |-> [b \in Byte |->
        16 * OrNib[a \div 16][b \div 16] + OrNib[a % 16][b % 16]]]

\* a ^ b on bytes
Xor8(a, b) == XorTab[a][b]

Xor16(a, b) == 256 * XorTab[a \div 256][b \div 256] + XorTab[a % 256][b % 256]

Or16(a, b) == 256 * OrTab[a \div 256][b \div 256] + OrTab[a % 256][b % 256]

\* uint32 operators of haraka512_software, on [lo, hi] halves
Xor32(x, y) == [lo |-> Xor16(x.lo, y.lo), hi |-> Xor16(x.hi, y.hi)]

Or32(x, y) == [lo |-> Or16(x.lo, y.lo), hi |-> Or16(x.hi, y.hi)]

Pow2 == [n \in 0..16 |-> 2 ^ n]

\* x << n on uint32, 0 < n < 16: the bits shifted past bit 31 are lost
Shl32(x, n) ==
    [lo |-> (x.lo * Pow2[n]) % 65536,
     hi |-> ((x.hi * Pow2[n]) % 65536) + (x.lo \div Pow2[16 - n])]

\* x >> n on uint32, 16 <= n < 32
Shr32(x, n) == [lo |-> x.hi \div Pow2[n - 16], hi |-> 0]

\* x + y on uint32 (wraps modulo 2^32)
Add32(x, y) ==
    [lo |-> (x.lo + y.lo) % 65536,
     hi |-> (x.hi + y.hi + ((x.lo + y.lo) \div 65536)) % 65536]

\* ((uint32_t*)p)[i]: the little-endian word at byte offset 4*i
LoadWord(p, i) ==
    [lo |-> p[4 * i] + 256 * p[4 * i + 1],
     hi |-> p[4 * i + 2] + 256 * p[4 * i + 3]]

\* byte k (0..3) of the little-endian store of word w
WordByte(w, k) ==
    IF k = 0 THEN w.lo % 256
    ELSE IF k = 1 THEN w.lo \div 256
    ELSE IF k = 2 THEN w.hi % 256
    ELSE w.hi \div 256

\* ------------------------------------------------------------ constant data

\* HARAKA_RC[0..7] as laid out in memory: _mm_set_epi32(e3, e2, e1, e0)
\* stores e0 in bytes 0..3 and e3 in bytes 12..15.
HARAKA_RC ==
    <<
    <<120, 126, 112, 182, 7, 27, 127, 65, 105, 94, 52, 45, 140, 174, 5, 14>>,
    <<180, 58, 169, 120, 133, 139, 124, 253, 168, 164, 18, 92, 243, 226, 247, 198>>,
    <<209, 195, 167, 225, 178, 221, 79, 146, 94, 79, 154, 76, 173, 135, 95, 140>>,
    <<190, 201, 168, 35, 65, 166, 242, 133, 142, 194, 148, 122, 91, 143, 59, 244>>,
    <<86, 217, 200, 65, 43, 110, 60, 248, 241, 232, 125, 154, 212, 178, 24, 92>>,
    <<194, 164, 225, 115, 41, 214, 248, 181, 95, 124, 74, 142, 172, 179, 157, 47>>,
    <<199, 225, 185, 165, 38, 77, 140, 31, 59, 90, 209, 231, 148, 143, 44, 107>>,
    <<108, 117, 29, 142, 165, 201, 180, 242, 232, 97, 122, 61, 132, 43, 95, 156>>
    >>

\* byte j (0..15) of HARAKA_RC[k], k in 0..7
RCByte(k, j) == HARAKA_RC[k + 1][j + 1]

\* ((uint32_t*)HARAKA_RC)[w]: word w of the table read as a uint32 array
RCWords ==
    [w \in 0..31 |->
        [lo |-> RCByte(w \div 4, 4 * (w % 4)) + 256 * RCByte(w \div 4, 4 * (w % 4) + 1),
         hi |-> RCByte(w \div 4, 4 * (w % 4) + 2) + 256 * RCByte(w \div 4, 4 * (w % 4) + 3)]]

RCWord(w) == RCWords[w]

\* The AES S-box used by the AESENC instruction (_mm_aesenc_si128).
SBox ==
    <<
    99, 124, 119, 123, 242, 107, 111, 197, 48, 1, 103, 43, 254, 215, 171, 118,
    202, 130, 201, 125, 250, 89, 71, 240, 173, 212, 162, 175, 156, 164, 114, 192,
    183, 253, 147, 38, 54, 63, 247, 204, 52, 165, 229, 241, 113, 216, 49, 21,
    4, 199, 35, 195, 24, 150, 5, 154, 7, 18, 128, 226, 235, 39, 178, 117,
    9, 131, 44, 26, 27, 110, 90, 160, 82, 59, 214, 179, 41, 227, 47, 132,
    83, 209, 0, 237, 32, 252, 177, 91, 106, 203, 190, 57, 74, 76, 88, 207,
    208, 239, 170, 251, 67, 77, 51, 133, 69, 249, 2, 127, 80, 60, 159, 168,
    81, 163, 64, 143, 146, 157, 56, 245, 188, 182, 218, 33, 16, 255, 243, 210,
    205, 12, 19, 236, 95, 151, 68, 23, 196, 167, 126, 61, 100, 93, 25, 115,
    96, 129, 79, 220, 34, 42, 144, 136, 70, 238, 184, 20, 222, 94, 11, 219,
    224, 50, 58, 10, 73, 6, 36, 92, 194, 211, 172, 98, 145, 149, 228, 121,
    231, 200, 55, 109, 141, 213, 78, 169, 108, 86, 244, 234, 101, 122, 174, 8,
    186, 120, 37, 46, 28, 166, 180, 198, 232, 221, 116, 31, 75, 189, 139, 138,
    112, 62, 181, 102, 72, 3, 246, 14, 97, 53, 87, 185, 134, 193, 29, 158,
    225, 248, 152, 17, 105, 217, 142, 148, 155, 30, 135, 233, 206, 85, 40, 223,
    140, 161, 137, 13, 191, 230, 66, 104, 65, 153, 45, 15, 176, 84, 187, 22
    >>

\* The fixed initial state: state[i] = _mm_set_epi64x(hi, lo), low quadword
\* in bytes 0..7 of the lane.
InitialStateBytes ==
    <<
    59, 167, 202, 132, 133, 174, 103, 187, 8, 201, 188, 243, 103, 230, 9, 106,
    241, 54, 29, 95, 58, 245, 79, 165, 43, 248, 148, 254, 114, 243, 110, 60,
    31, 108, 62, 43, 140, 104, 5, 155, 209, 130, 230, 173, 127, 82, 14, 81,
    121, 33, 126, 19, 25, 205, 224, 91, 107, 189, 65, 251, 171, 217, 131, 31
    >>

InitialState == [i \in 0..(VERUS_BLOCKSIZE - 1) |-> InitialStateBytes[i + 1]]

ZeroBlock == [i \in 0..(VERUS_BLOCKSIZE - 1) |-> 0]

\* ------------------------------------------------------------ haraka512_software

\* x ^= (x << 13) | (x >> 19)
MixLeft13(x) == Xor32(x, Or32(Shl32(x, 13), Shr32(x, 19)))

\* x ^= (x >> 17) | (x << 15)
MixRight17(x) == Xor32(x, Or32(Shr32(x, 17), Shl32(x, 15)))

\* the per-word body of a round
RoundWord(x, i) == Add32(MixRight17(MixLeft13(x)), RCWord(i % 8))

\* temp = state[0]; state[i] = state[i + 1] for i < 15; state[15] = temp
WordRotate(st) == Eager([i \in 0..15 |-> st[(i + 1) % 16]])

\* for (i = 0..15) { the three steps on state[i] }
MixWords(st) == Eager([i \in 0..15 |-> RoundWord(st[i], i)])

\* if (round % 2 == 1) { rotate the sixteen words by one }
OddRoundWordRotate(st, round) == IF round % 2 = 1 THEN WordRotate(st) ELSE st

SoftwareRound(st, round) == OddRoundWordRotate(MixWords(st), round)

RECURSIVE SoftwareRounds(_, _)
SoftwareRounds(st, round) ==
    CASE DOMAIN st = 0..15 ->
        IF round >= VERUS_ROUNDS THEN st
        ELSE SoftwareRounds(SoftwareRound(st, round), round + 1)

\* state[i] = in[i] for the sixteen words of the input
LoadWords(input) == Eager([i \in 0..15 |-> LoadWord(input, i)])

\* state[i] ^= in[i]
SoftwareFeedForward(st, loaded) == Eager([i \in 0..15 |-> Xor32(st[i], loaded[i])])

\* out[i] = state[i] ^ state[i + 8] for the eight words of the output
SoftwareFold(st) ==
    Eager([k \in 0..(DIGEST_SIZE - 1) |->
        WordByte(Xor32(st[k \div 4], st[(k \div 4) + 8]), k % 4)])

haraka512_software(input) ==
    SoftwareFold(SoftwareFeedForward(SoftwareRounds(LoadWords(input), 0), LoadWords(input)))

\* ------------------------------------------------------------ haraka512_aes_ni

\* multiplication by 2 in GF(2^8) modulo x^8 + x^4 + x^3 + x + 1
XTime(b) == IF b >= 128 THEN Xor8((2 * b) % 256, 27) ELSE 2 * b

\* the MixColumns coefficients 2 and 3 applied to every byte
Mul2 == [b \in Byte |-> XTime(b)]

Mul3 == [b \in Byte |-> Xor8(XTime(b), b)]

\* AESENC: ShiftRows, SubBytes, MixColumns, then XOR of the round key.
\* Byte r + 4c of the lane is row r, column c of the AES state.
ShiftRows(s) == Eager([i \in 0..15 |-> s[(i % 4) + 4 * (((i \div 4) + (i % 4)) % 4)]])

SubBytes(s) == Eager([i \in 0..15 |-> SBox[s[i] + 1]])

MixColumns(s) ==
    Eager([i \in 0..15 |->
        Xor8(Xor8(Mul2[s[4 * (i \div 4) + (i % 4)]],
                  Mul3[s[4 * (i \div 4) + ((i + 1) % 4)]]),
             Xor8(s[4 * (i \div 4) + ((i + 2) % 4)],
                  s[4 * (i \div 4) + ((i + 3) % 4)]))])

\* _mm_aesenc_si128(lane, HARAKA_RC[k])
AesEnc(lane, k) ==
    LET m == MixColumns(SubBytes(ShiftRows(lane)))
    IN  Eager([i \in 0..15 |-> Xor8(m[i], RCByte(k, i))])

\* _mm_load_si128((__m128i*)(p + 16 * i))
Lane(p, i) == Eager([j \in 0..15 |-> p[16 * i + j]])

\* _mm_xor_si128
XorLane(a, b) == Eager([j \in 0..15 |-> Xor8(a[j], b[j])])

\* one iteration of the round loop on <<s0, s1, s2, s3>>
\* if (i % 2 == 1) { temp = s0; s0 = s1; s1 = s2; s2 = s3; s3 = temp; }
OddRoundLaneRotate(s, i) == IF i % 2 = 1 THEN <<s[2], s[3], s[4], s[1]>> ELSE s

AesRound(s, i) ==
    OddRoundLaneRotate(<<AesEnc(s[1], i % 8), AesEnc(s[2], (i + 1) % 8),
                         AesEnc(s[3], (i + 2) % 8), AesEnc(s[4], (i + 3) % 8)>>, i)

RECURSIVE AesRounds(_, _)
AesRounds(s, i) ==
    CASE Len(s) = 4 ->
        IF i >= VERUS_ROUNDS THEN s ELSE AesRounds(AesRound(s, i), i + 1)

\* s0..s3 = the four lanes of the input
LoadLanes(input) == <<Lane(input, 0), Lane(input, 1), Lane(input, 2), Lane(input, 3)>>

\* s_j = _mm_xor_si128(s_j, load(in + 16 * j))
AesFeedForward(s, lanes) ==
    <<XorLane(s[1], lanes[1]), XorLane(s[2], lanes[2]),
      XorLane(s[3], lanes[3]), XorLane(s[4], lanes[4])>>

\* store(out, s0 ^ s2); store(out + 16, s1 ^ s3)
AesFold(s) ==
    Eager([k \in 0..(DIGEST_SIZE - 1) |->
        IF k < 16 THEN Xor8(s[1][k], s[3][k]) ELSE Xor8(s[2][k - 16], s[4][k - 16])])

haraka512_aes_ni(input) ==
    AesFold(AesFeedForward(AesRounds(LoadLanes(input), 0), LoadLanes(input)))

\* haraka512: the hardware path when the build defines HAVE_AES_NI and the
\* CPU reports AES support, the portable path otherwise.
haraka512(aes, input) ==
    IF aes THEN haraka512_aes_ni(input) ELSE haraka512_software(input)

\* ------------------------------------------------------------ sponge helpers

BlockIdx == 0..(VERUS_BLOCKSIZE - 1)

\* for (i = 0..3) state[i] = _mm_xor_si128(state[i], load(block + 16 * i))
XorState(state, block) == Eager([i \in BlockIdx |-> Xor8(state[i], block[i])])

\* state[0], state[1] = the two halves of the permutation output; state[2]
\* and state[3] keep what the XOR loop left in them
OverwriteLow(state, output) ==
    Eager([i \in BlockIdx |-> IF i < DIGEST_SIZE THEN output[i] ELSE state[i]])

\* memcpy(dst + at, src + from, n) where src is a byte sequence (1-based)
CopyIn(dst, at, src, from, n) ==
    Eager([i \in BlockIdx |-> IF i >= at /\ i < at + n THEN src[from + (i - at) + 1] ELSE dst[i]])

\* memset(dst + at, 0, n)
ZeroFill(dst, at, n) ==
    Eager([i \in BlockIdx |-> IF i >= at /\ i < at + n THEN 0 ELSE dst[i]])

\* the 64 bytes at data + off as a block
BlockAt(data, off) == Eager([i \in BlockIdx |-> data[off + i + 1]])

\* byte k (0..7) of the little-endian uint64 v, v given as 16-bit quarters
QuadByte(q, k) ==
    IF k % 2 = 0 THEN q[(k \div 2) + 1] % 256 ELSE q[(k \div 2) + 1] \div 256

\* *((uint64_t*)(dst + VERUS_BLOCKSIZE - 8)) = v
StoreLength(dst, q) ==
    Eager([i \in BlockIdx |->
        IF i >= VERUS_BLOCKSIZE - 8 THEN QuadByte(q, i - (VERUS_BLOCKSIZE - 8)) ELSE dst[i]])

\* input_len * 8 in verushash_hash: a uint32 product (it wraps modulo 2^32),
\* then widened to 64 bits.  (8 n) mod 2^32 has low half (n mod 2^13) * 8
\* and high half (n div 2^13) mod 2^16.
HashBitLength(input_len) ==
    <<(input_len % 8192) * 8, (input_len \div 8192) % 65536, 0, 0>>

\* The length field of verushash_finalize counting bytes instead of bits.
FinalizeByteLength(total_len) ==
    <<total_len % 65536, (total_len \div 65536) % 65536, 0, 0>>

\* ctx->total_len * 8 in verushash_finalize: a uint64 product
FinalizeBitLength(total_len) ==
    <<(total_len % 8192) * 8, (total_len \div 8192) % 65536,
      total_len \div 536870912, 0>>

\* ------------------------------------------------------------ verushash_hash

\* the body of the while loop: one 64-byte block of the input
HashAbsorb(aes, state, block) ==
    LET Permute(temp_input) ==
            [state |-> OverwriteLow(temp_input, haraka512(aes, temp_input)),
             input |-> temp_input]
    IN  Permute(XorState(state, block))

\* The full-block loop stopping one block early: while (remaining > 64).
RECURSIVE HashLoopStrict(_, _, _, _, _)
HashLoopStrictNext(aes, a, input, off, perm) ==
    HashLoopStrict(aes, a.state, input, off + VERUS_BLOCKSIZE, Append(perm, a.input))

HashLoopStrict(aes, state, input, off, perm) ==
    CASE DOMAIN state = BlockIdx ->
        IF Len(input) - off > VERUS_BLOCKSIZE
        THEN HashLoopStrictNext(aes, HashAbsorb(aes, state, BlockAt(input, off)),
                                input, off, perm)
        ELSE [state |-> state, off |-> off, perm |-> perm]

\* while (remaining >= VERUS_BLOCKSIZE) { ... }
RECURSIVE HashLoop(_, _, _, _, _)
HashLoopNext(aes, a, input, off, perm) ==
    HashLoop(aes, a.state, input, off + VERUS_BLOCKSIZE, Append(perm, a.input))

HashLoop(aes, state, input, off, perm) ==
    CASE DOMAIN state = BlockIdx ->
        IF Len(input) - off >= VERUS_BLOCKSIZE
        THEN HashLoopNext(aes, HashAbsorb(aes, state, BlockAt(input, off)), input, off, perm)
        ELSE [state |-> state, off |-> off, perm |-> perm]

\* padded_block = {0}; memcpy(padded_block, data, remaining);
\* padded_block[remaining] = 0x80; then the length over bytes 56..63
HashPaddedBlock(input, off) ==
    StoreLength([CopyIn(ZeroBlock, 0, input, off, Len(input) - off)
                    EXCEPT ![Len(input) - off] = 128],
                HashBitLength(Len(input)))

\* verushash_hash(input, output, input_len): the digest written to output,
\* the inputs of its haraka512 calls in order, and the final block XORed
\* into the state (<<>> when none is built).
verushash_hash(aes, input) ==
    LET Last(l, temp_input, final) ==
            [digest |-> haraka512(aes, temp_input),
             perm   |-> Append(l.perm, temp_input),
             final  |-> final]
        Padded(l, padded_block) ==
            Last(l, XorState(l.state, padded_block), padded_block)
        Rest(l) ==
            IF Len(input) - l.off > 0
            THEN Padded(l, HashPaddedBlock(input, l.off))
            ELSE Last(l, l.state, <<>>)
    IN  Rest(HashLoop(aes, InitialState, input, 0, <<>>))

\* ------------------------------------------------------------ streaming context

\* verushash_create_context
NewContext ==
    [buffer |-> ZeroBlock, buffer_len |-> 0, total_len |-> 0, state |-> InitialState]

\* memset(ctx, 0, sizeof(verushash_ctx)) in verushash_destroy_context
ZeroContext ==
    [buffer |-> ZeroBlock, buffer_len |-> 0, total_len |-> 0, state |-> ZeroBlock]

Min(a, b) == IF a < b THEN a ELSE b

\* The buffered absorption permuting the buffer itself, without the XOR
\* into the state.
UpdateAbsorbBufferPlain(aes, state, buffer) ==
    LET Permute(temp_input) ==
            [state |-> OverwriteLow(state, haraka512(aes, temp_input)),
             input |-> temp_input]
    IN  Permute(buffer)

\* "Process full buffer if ready": the buffered block
UpdateAbsorbBuffer(aes, state, buffer) ==
    LET Permute(temp_input) ==
            [state |-> OverwriteLow(temp_input, haraka512(aes, temp_input)),
             input |-> temp_input]
    IN  Permute(XorState(state, buffer))

\* The direct-block absorption permuting the XORed block while the state
\* itself keeps lanes 2 and 3 as they were before the XOR.
UpdateAbsorbDirectKeepHigh(aes, state, block) ==
    LET Permute(temp_input) ==
            [state |-> OverwriteLow(state, haraka512(aes, temp_input)),
             input |-> temp_input]
    IN  Permute(XorState(state, block))

\* "Process complete blocks": a block read straight from the caller's data
UpdateAbsorbDirect(aes, state, block) ==
    LET Permute(temp_input) ==
            [state |-> OverwriteLow(temp_input, haraka512(aes, temp_input)),
             input |-> temp_input]
    IN  Permute(XorState(state, block))

\* The fill step absorbing the buffer also when the caller brought nothing
\* to add to it.
UpdateFillFlush(aes, c, data) ==
    LET Full(to_copy, buffer, a) ==
            [ctx  |-> [c EXCEPT !.buffer = buffer, !.buffer_len = 0, !.state = a.state],
             off  |-> to_copy,
             perm |-> <<a.input>>]
        Copied(to_copy, buffer) ==
            IF c.buffer_len + to_copy = VERUS_BLOCKSIZE \/ to_copy = 0
            THEN Full(to_copy, buffer, UpdateAbsorbBuffer(aes, c.state, buffer))
            ELSE [ctx  |-> [c EXCEPT !.buffer = buffer,
                                     !.buffer_len = c.buffer_len + to_copy],
                  off  |-> to_copy,
                  perm |-> <<>>]
        Copy(to_copy) ==
            Copied(to_copy, CopyIn(c.buffer, c.buffer_len, data, 0, to_copy))
    IN  IF c.buffer_len > 0
        THEN Copy(Min(Len(data), VERUS_BLOCKSIZE - c.buffer_len))
        ELSE [ctx |-> c, off |-> 0, perm |-> <<>>]

\* The fill step without "ctx->buffer_len = 0" after the absorption.
UpdateFillKeepLen(aes, c, data) ==
    LET Full(to_copy, buffer, a) ==
            [ctx  |-> [c EXCEPT !.buffer = buffer,
                                !.buffer_len = c.buffer_len + to_copy,
                                !.state = a.state],
             off  |-> to_copy,
             perm |-> <<a.input>>]
        Copied(to_copy, buffer) ==
            IF c.buffer_len + to_copy = VERUS_BLOCKSIZE
            THEN Full(to_copy, buffer, UpdateAbsorbBuffer(aes, c.state, buffer))
            ELSE [ctx  |-> [c EXCEPT !.buffer = buffer,
                                     !.buffer_len = c.buffer_len + to_copy],
                  off  |-> to_copy,
                  perm |-> <<>>]
        Copy(to_copy) ==
            Copied(to_copy, CopyIn(c.buffer, c.buffer_len, data, 0, to_copy))
    IN  IF c.buffer_len > 0
        THEN Copy(Min(Len(data), VERUS_BLOCKSIZE - c.buffer_len))
        ELSE [ctx |-> c, off |-> 0, perm |-> <<>>]

\* if (ctx->buffer_len > 0) { ... }: top the buffer up and absorb it when full
UpdateFill(aes, c, data) ==
    LET Full(to_copy, buffer, a) ==
            [ctx  |-> [c EXCEPT !.buffer = buffer, !.buffer_len = 0, !.state = a.state],
             off  |-> to_copy,
             perm |-> <<a.input>>]
        Copied(to_copy, buffer) ==
            IF c.buffer_len + to_copy = VERUS_BLOCKSIZE
            THEN Full(to_copy, buffer, UpdateAbsorbBuffer(aes, c.state, buffer))
            ELSE [ctx  |-> [c EXCEPT !.buffer = buffer,
                                     !.buffer_len = c.buffer_len + to_copy],
                  off  |-> to_copy,
                  perm |-> <<>>]
        Copy(to_copy) ==
            Copied(to_copy, CopyIn(c.buffer, c.buffer_len, data, 0, to_copy))
    IN  IF c.buffer_len > 0
        THEN Copy(Min(Len(data), VERUS_BLOCKSIZE - c.buffer_len))
        ELSE [ctx |-> c, off |-> 0, perm |-> <<>>]

\* while (len >= VERUS_BLOCKSIZE) { ... }
RECURSIVE UpdateLoop(_, _, _, _, _)
UpdateLoopNext(aes, a, data, off, perm) ==
    UpdateLoop(aes, a.state, data, off + VERUS_BLOCKSIZE, Append(perm, a.input))

UpdateLoop(aes, state, data, off, perm) ==
    CASE DOMAIN state = BlockIdx ->
        IF Len(data) - off >= VERUS_BLOCKSIZE
        THEN UpdateLoopNext(aes, UpdateAbsorbDirect(aes, state, BlockAt(data, off)), data, off, perm)
        ELSE [state |-> state, off |-> off, perm |-> perm]

\* The final store reading from the start of the caller's data instead of
\* from where the fill step and the block loop stopped.
UpdateStoreFromStart(c, data, off) ==
    LET len == Len(data) - off
    IN  IF len > 0
        THEN [c EXCEPT !.buffer = CopyIn(c.buffer, c.buffer_len, data, 0, len),
                       !.buffer_len = c.buffer_len + len]
        ELSE c

\* if (len > 0) { memcpy(ctx->buffer + ctx->buffer_len, data, len); ... }
UpdateStore(c, data, off) ==
    LET len == Len(data) - off
    IN  IF len > 0
        THEN [c EXCEPT !.buffer = CopyIn(c.buffer, c.buffer_len, data, off, len),
                       !.buffer_len = c.buffer_len + len]
        ELSE c

\* verushash_update(ctx, data, len) with non-null ctx and data: the context
\* afterwards, the inputs of its haraka512 calls, and the offset of the
\* first block read directly from data (-1 when none is).
verushash_update(aes, c, data) ==
    LET Looped(f, l) ==
            [ctx    |-> UpdateStore([f.ctx EXCEPT !.state = l.state], data, l.off),
             perm   |-> l.perm,
             direct |-> IF Len(data) - f.off >= VERUS_BLOCKSIZE THEN f.off ELSE -1]
        Filled(f) ==
            Looped(f, UpdateLoop(aes, f.ctx.state, data, f.off, f.perm))
    IN  Filled(UpdateFill(aes, [c EXCEPT !.total_len = c.total_len + Len(data)], data))

\* the extra block of verushash_finalize
FinalizeAbsorb(aes, state, buffer) ==
    LET Permute(temp_input) ==
            [state |-> OverwriteLow(temp_input, haraka512(aes, temp_input)),
             input |-> temp_input]
    IN  Permute(XorState(state, buffer))

\* The padding rule with the branch chosen before the marker is written: a
\* buffer of more than 55 bytes is zero-filled and absorbed as it is, and the
\* marker opens the fresh block.
FinalizePadZeroFirst(aes, c) ==
    LET Extra(a) ==
            [ctx  |-> [c EXCEPT !.buffer = [ZeroBlock EXCEPT ![0] = 128],
                                !.buffer_len = 1, !.state = a.state],
             perm |-> <<a.input>>]
    IN  IF c.buffer_len > VERUS_BLOCKSIZE - 8 - 1
        THEN Extra(FinalizeAbsorb(aes, c.state,
                                  ZeroFill(c.buffer, c.buffer_len,
                                           VERUS_BLOCKSIZE - c.buffer_len)))
        ELSE [ctx  |-> [c EXCEPT !.buffer = ZeroFill([c.buffer EXCEPT ![c.buffer_len] = 128],
                                                     c.buffer_len + 1,
                                                     VERUS_BLOCKSIZE - 8 - (c.buffer_len + 1)),
                                 !.buffer_len = c.buffer_len + 1],
              perm |-> <<>>]

\* The padding rule taking the extra block one byte early, as soon as the
\* marker fills the block up to the length field.
FinalizePadEarly(aes, c) ==
    LET Extra(a) ==
            [ctx  |-> [c EXCEPT !.buffer = ZeroBlock, !.buffer_len = 0, !.state = a.state],
             perm |-> <<a.input>>]
        Marked(marked, len1) ==
            IF len1 >= VERUS_BLOCKSIZE - 8
            THEN Extra(FinalizeAbsorb(aes, c.state,
                                      ZeroFill(marked, len1, VERUS_BLOCKSIZE - len1)))
            ELSE [ctx  |-> [c EXCEPT !.buffer = ZeroFill(marked, len1,
                                                         VERUS_BLOCKSIZE - 8 - len1),
                                     !.buffer_len = len1],
                  perm |-> <<>>]
    IN  Marked([c.buffer EXCEPT ![c.buffer_len] = 128], c.buffer_len + 1)

\* "Pad the buffer" up to the length field: the context, and the inputs of
\* the haraka512 calls made so far
FinalizePad(aes, c) ==
    LET Extra(a) ==
            [ctx  |-> [c EXCEPT !.buffer = ZeroBlock, !.buffer_len = 0, !.state = a.state],
             perm |-> <<a.input>>]
        Marked(marked, len1) ==
            IF len1 > VERUS_BLOCKSIZE - 8
            THEN Extra(FinalizeAbsorb(aes, c.state,
                                      ZeroFill(marked, len1, VERUS_BLOCKSIZE - len1)))
            ELSE [ctx  |-> [c EXCEPT !.buffer = ZeroFill(marked, len1,
                                                         VERUS_BLOCKSIZE - 8 - len1),
                                     !.buffer_len = len1],
                  perm |-> <<>>]
    IN  Marked([c.buffer EXCEPT ![c.buffer_len] = 128], c.buffer_len + 1)

\* verushash_finalize marking the buffer as full once the length is stored.
verushash_finalize_full(aes, c) ==
    LET Final(p, buffer, state) ==
            [ctx    |-> [p.ctx EXCEPT !.buffer = buffer, !.state = state,
                                      !.buffer_len = VERUS_BLOCKSIZE],
             digest |-> haraka512(aes, state),
             perm   |-> Append(p.perm, state),
             final  |-> buffer]
        Lengthed(p, buffer) == Final(p, buffer, XorState(p.ctx.state, buffer))
        Padded(p) ==
            Lengthed(p, StoreLength(p.ctx.buffer, FinalizeBitLength(c.total_len)))
    IN  Padded(FinalizePad(aes, c))

\* verushash_finalize(ctx, output) with non-null ctx and output: the context
\* afterwards, the digest written to output, the inputs of its haraka512
\* calls, and the last block XORed into the state.
verushash_finalize(aes, c) ==
    LET Final(p, buffer, state) ==
            [ctx    |-> [p.ctx EXCEPT !.buffer = buffer, !.state = state],
             digest |-> haraka512(aes, state),
             perm   |-> Append(p.perm, state),
             final  |-> buffer]
        Lengthed(p, buffer) == Final(p, buffer, XorState(p.ctx.state, buffer))
        Padded(p) ==
            Lengthed(p, StoreLength(p.ctx.buffer, FinalizeBitLength(c.total_len)))
    IN  Padded(FinalizePad(aes, c))

\* ------------------------------------------------------------ bounds and inputs

\* the longest stream a context is fed, and the longest single-shot message
MaxLen == 128

\* update and finalize calls explored after the first finalize of a context
MaxLate == 1

\* the test blocks handed to haraka512 directly are numbered 0..MaxSeed
MaxSeed == 60

\* chunk lengths passed to verushash_update
ChunkLens == {0, 1, 7, 55, 56, 64, 128}

\* chunk lengths passed to verushash_update on a finalized context
LateChunkLens == {0, 1, 64}

\* a caller's buffer address modulo 16
Aligns == {0, 1}

\* the byte at position p (0-based) of the stream the caller supplies
Data(p) == (37 * p + 11) % 256

\* the first n bytes of that stream
BaseMessage(n) == [i \in 1..n |-> Data(i - 1)]

\* m with the lowest bit of byte number at (1-based) flipped; m itself for at = 0
FlipBit(m, at) ==
    [i \in 1..Len(m) |-> IF i = at THEN Xor8(m[i], 1) ELSE m[i]]

\* the block a caller hands to haraka512: all-zero, all-0xFF, then patterns
TestBlock(k) ==
    IF k = 0 THEN ZeroBlock
    ELSE IF k = 1 THEN Eager([i \in BlockIdx |-> 255])
    ELSE Eager([i \in BlockIdx |-> (k * i + 11 * k) % 256])

\* where null arguments are tried, updates are made on streams shorter than this
MaxMisuseLen == 8

\* long inputs have k * 2^23 + r bytes, k up to MaxLenSteps
MaxLenSteps == 70

\* the input_len arguments of calls on long inputs: every 8 MiB up to past
\* 512 MiB, with 1 or 55 bytes left over for the padded block
LongLens == {k * 8388608 + r : k \in 0..MaxLenSteps, r \in {1, 55}}

\* update calls each thread makes on its own context
MaxUpdates == 2

\* the threads; each creates and uses a context of its own
Threads == {1, 2}

\* the chunk lengths a thread passes to its update calls, in order
ThreadChunkLens(t) == IF t = 1 THEN <<56, 64, 7>> ELSE <<64, 56, 1>>

ThreadChunkLen(t, k) == ThreadChunkLens(t)[((k - 1) % 3) + 1]

\* the len bytes thread t passes next, its stream standing at position start
ThreadChunk(t, start, len) ==
    [i \in 1..len |-> Data(start + i - 1 + 100 * (t - 1))]

\* an output buffer nothing has been written to
NoDigest == <<>>

\* no padded block was built
NoBlock == <<>>

\* ------------------------------------------------------------ state

VARIABLES
    aes_ni,     \* HAVE_AES_NI is compiled in and verushash_has_aes_ni() holds
    status,     \* "live" after create_context, "destroyed" after destroy_context
    ctx,        \* the verushash_ctx the caller holds
    fed,        \* every byte verushash_update accepted since create_context
    out,        \* the caller's output buffer
    perm,       \* the inputs of the haraka512 calls made by the last call
    padded,     \* the last block the last finalize / hash call XORed into the state
    last,       \* the last call: [op, arg]
    fin,        \* finalize calls completed on the context
    late,       \* update / finalize calls made after the first finalize
    crashed,    \* the process took a fault (misaligned SSE access)
    msg,        \* the caller's message for a single-shot verushash_hash call
    seed,       \* number of the test block in input
    input,      \* the caller's 64-byte block for a direct haraka512 call
    thr,        \* per thread: its own context, its position in its calls, its output
    temp_input, \* per stack frame: the temp_input array of the call running there
    input_len   \* the input_len argument of a verushash_hash call on a long input

vars ==
    <<aes_ni, status, ctx, fed, out, perm, padded, last, fin, late, crashed,
      msg, seed, input, thr, temp_input, input_len>>

Init ==
    /\ aes_ni \in BOOLEAN
    /\ status = "live"
    /\ ctx = NewContext
    /\ fed = <<>>
    /\ out = NoDigest
    /\ perm = <<>>
    /\ padded = NoBlock
    /\ last = [op |-> "create", arg |-> "ok"]
    /\ fin = 0
    /\ late = 0
    /\ crashed = FALSE
    /\ msg = <<>>
    /\ seed = 0
    /\ input = TestBlock(0)
    /\ thr = [t \in Threads |->
                [pc |-> "start", ctx |-> ZeroContext, data |-> <<>>, off |-> 0,
                 calls |-> 0, out |-> NoDigest]]
    /\ temp_input = [f \in Threads |-> ZeroBlock]
    /\ input_len = 0

\* the len bytes that follow the stream fed so far
Chunk(len) == [i \in 1..len |-> Data(Len(fed) + i - 1)]

\* the process dies inside a call
Fault(op) ==
    /\ crashed' = TRUE
    /\ last' = [op |-> op, arg |-> "fault"]
    /\ perm' = <<>>
    /\ UNCHANGED <<aes_ni, thr, temp_input, input_len, status, ctx, fed, out, padded, fin, late, msg, seed, input>>

\* ------------------------------------------------------------ the streaming API

\* verushash_create_context() after the previous context was destroyed
Create ==
    /\ ~crashed
    /\ status = "destroyed"
    /\ status' = "live"
    /\ ctx' = NewContext
    /\ fed' = <<>>
    /\ out' = NoDigest
    /\ perm' = <<>>
    /\ padded' = NoBlock
    /\ last' = [op |-> "create", arg |-> "ok"]
    /\ fin' = 0
    /\ late' = 0
    /\ UNCHANGED <<aes_ni, thr, temp_input, input_len, crashed, msg, seed, input>>

\* verushash_destroy_context(ctx)
Destroy ==
    /\ ~crashed
    /\ status = "live"
    /\ status' = "destroyed"
    /\ ctx' = ZeroContext
    /\ fed' = <<>>
    /\ out' = NoDigest
    /\ perm' = <<>>
    /\ padded' = NoBlock
    /\ last' = [op |-> "destroy", arg |-> "ok"]
    /\ fin' = 0
    /\ late' = 0
    /\ UNCHANGED <<aes_ni, thr, temp_input, input_len, crashed, msg, seed, input>>

\* verushash_update(ctx, data, len), ctx and data non-null.  The blocks read
\* straight from data go through _mm_load_si128, which needs data + to_copy
\* 16-byte aligned: on a misaligned pointer the load is undefined (it faults
\* as movdqa / pxor m128, and goes through under VEX encoding).
Update ==
    /\ ~crashed
    /\ status = "live"
    /\ \E len \in (IF fin = 0 THEN ChunkLens ELSE LateChunkLens) :
          /\ Len(fed) + len <= MaxLen
          /\ fin > 0 => late < MaxLate
          /\ \E r \in {verushash_update(aes_ni, ctx, Chunk(len))} :
             \E align \in Aligns :
             \E fault \in (IF r.direct >= 0 /\ (align + r.direct) % 16 # 0
                           THEN BOOLEAN ELSE {FALSE}) :
                IF fault
                THEN Fault("update")
                ELSE /\ ctx' = r.ctx
                     /\ fed' = fed \o Chunk(len)
                     /\ perm' = r.perm
                     /\ last' = [op |-> "update", arg |-> "ok"]
                     /\ late' = IF fin > 0 THEN late + 1 ELSE late
                     /\ UNCHANGED <<aes_ni, thr, temp_input, input_len, status, out, padded, fin, crashed,
                                    msg, seed, input>>

\* verushash_update counting the length before it looks at data: a null
\* data pointer still adds len to total_len.
UpdateNullCounted ==
    /\ ~crashed
    /\ \E arg \in {"null_ctx", "null_data"} :
          /\ last' = [op |-> "update", arg |-> arg]
          /\ perm' = <<>>
          /\ ctx' = IF arg = "null_data"
                    THEN [ctx EXCEPT !.total_len = @ + 1]
                    ELSE ctx
          /\ UNCHANGED <<aes_ni, thr, temp_input, input_len, status, fed, out, padded, fin, late, crashed,
                         msg, seed, input>>

\* verushash_update with ctx == NULL or data == NULL: "if (!ctx || !data) return;"
UpdateNull ==
    /\ ~crashed
    /\ \E arg \in {"null_ctx", "null_data"} :
          /\ last' = [op |-> "update", arg |-> arg]
          /\ perm' = <<>>
          /\ UNCHANGED <<aes_ni, thr, temp_input, input_len, status, ctx, fed, out, padded, fin, late, crashed,
                         msg, seed, input>>

\* verushash_finalize(ctx, output), ctx and output non-null.  On the AES-NI
\* path haraka512 stores the digest with _mm_store_si128 straight into
\* output, which is undefined when output is not 16-byte aligned.  A
\* buffer_len above 63 would put the marker outside the buffer.
Finalize ==
    /\ ~crashed
    /\ status = "live"
    /\ fin > 0 => late < MaxLate
    /\ IF ctx.buffer_len >= VERUS_BLOCKSIZE
       THEN Fault("finalize")
       ELSE \E r \in {verushash_finalize(aes_ni, ctx)} :
            \E align \in Aligns :
            \E fault \in (IF aes_ni /\ align # 0 THEN BOOLEAN ELSE {FALSE}) :
               IF fault
               THEN Fault("finalize")
               ELSE /\ ctx' = r.ctx
                    /\ out' = r.digest
                    /\ perm' = r.perm
                    /\ padded' = r.final
                    /\ last' = [op |-> "finalize", arg |-> "ok"]
                    /\ fin' = fin + 1
                    /\ late' = IF fin > 0 THEN late + 1 ELSE late
                    /\ UNCHANGED <<aes_ni, thr, temp_input, input_len, status, fed, crashed, msg, seed, input>>

\* verushash_finalize with ctx == NULL or output == NULL
FinalizeNull ==
    /\ ~crashed
    /\ \E arg \in {"null_ctx", "null_output"} :
          /\ last' = [op |-> "finalize", arg |-> arg]
          /\ perm' = <<>>
          /\ UNCHANGED <<aes_ni, thr, temp_input, input_len, status, ctx, fed, out, padded, fin, late, crashed,
                         msg, seed, input>>

Next ==
    \/ Create
    \/ Destroy
    \/ Update
    \/ Finalize

Spec == Init /\ [][Next]_vars

\* verushash_update on a stream that is still short
ShortUpdate ==
    /\ Len(fed) < MaxMisuseLen
    /\ Update

\* the streaming calls with and without null arguments
MisuseNext ==
    \/ ShortUpdate
    \/ UpdateNull
    \/ Finalize
    \/ FinalizeNull

MisuseSpec == Init /\ [][MisuseNext]_vars

\* ------------------------------------------------------------ the single-shot API

\* The caller prepares its next message, one byte longer than the last: the
\* supplied stream as it is, or with one bit of its first or last byte flipped,
\* and a fresh output buffer.
LoadMessage ==
    /\ ~crashed
    /\ Len(msg) < MaxLen
    /\ \E at \in {0, 1, Len(msg) + 1} :
          msg' = FlipBit(BaseMessage(Len(msg) + 1), at)
    /\ out' = NoDigest
    /\ perm' = <<>>
    /\ padded' = NoBlock
    /\ last' = [op |-> "message", arg |-> "ok"]
    /\ UNCHANGED <<aes_ni, thr, temp_input, input_len, status, ctx, fed, fin, late, crashed, seed, input>>

\* verushash_hash(input, output, input_len).  Only when no bytes remain after
\* the block loop does haraka512 write straight into output; on the AES-NI
\* path that is _mm_store_si128, undefined on a misaligned output.
Hash ==
    /\ ~crashed
    /\ \E r \in {verushash_hash(aes_ni, msg)} :
       \E align \in Aligns :
       \E fault \in (IF aes_ni /\ align # 0 /\ Len(msg) % VERUS_BLOCKSIZE = 0
                     THEN BOOLEAN ELSE {FALSE}) :
          IF fault
          THEN Fault("hash")
          ELSE /\ out' = r.digest
               /\ perm' = r.perm
               /\ padded' = r.final
               /\ last' = [op |-> "hash", arg |-> "ok"]
               /\ UNCHANGED <<aes_ni, thr, temp_input, input_len, status, ctx, fed, fin, late, crashed,
                              msg, seed, input>>

HashNext == LoadMessage \/ Hash

HashSpec == Init /\ [][HashNext]_vars

\* ------------------------------------------------------------ the permutation alone

\* The caller fills its input block with the next test block and takes a
\* fresh output buffer.
LoadInput ==
    /\ ~crashed
    /\ seed < MaxSeed
    /\ seed' = seed + 1
    /\ input' = TestBlock(seed + 1)
    /\ out' = NoDigest
    /\ perm' = <<>>
    /\ last' = [op |-> "load", arg |-> "ok"]
    /\ UNCHANGED <<aes_ni, thr, temp_input, input_len, status, ctx, fed, padded, fin, late, crashed, msg>>

\* haraka512 working in place: the 32 output bytes also land on the first
\* half of the caller's input block.
CallHaraka512InPlace ==
    /\ ~crashed
    /\ \E align \in Aligns :
       \E fault \in (IF aes_ni /\ align # 0 THEN BOOLEAN ELSE {FALSE}) :
          IF fault
          THEN Fault("haraka512")
          ELSE /\ out' = haraka512(aes_ni, input)
               /\ input' = OverwriteLow(input, haraka512(aes_ni, input))
               /\ perm' = <<input>>
               /\ last' = [op |-> "haraka512", arg |-> "ok"]
               /\ UNCHANGED <<aes_ni, thr, temp_input, input_len, status, ctx, fed, padded, fin, late, crashed,
                              msg, seed>>

\* haraka512(input, output) called directly.  The AES-NI path loads input and
\* stores output with aligned SSE accesses, undefined on a misaligned buffer.
CallHaraka512 ==
    /\ ~crashed
    /\ \E align \in Aligns :
       \E fault \in (IF aes_ni /\ align # 0 THEN BOOLEAN ELSE {FALSE}) :
          IF fault
          THEN Fault("haraka512")
          ELSE /\ out' = haraka512(aes_ni, input)
               /\ perm' = <<input>>
               /\ last' = [op |-> "haraka512", arg |-> "ok"]
               /\ UNCHANGED <<aes_ni, thr, temp_input, input_len, status, ctx, fed, padded, fin, late, crashed,
                              msg, seed, input>>

PermNext == LoadInput \/ CallHaraka512

PermSpec == Init /\ [][PermNext]_vars

\* ------------------------------------------------------------ two threads

\* the variables of the single-caller views, which the threads leave alone
sequential ==
    <<status, ctx, fed, out, perm, padded, last, fin, late, crashed, msg, seed,
      input, input_len>>

\* temp_input with static storage: one array for every call in the process
StaticFrame(t) == 1

\* alignas(16) uint8_t temp_input[VERUS_BLOCKSIZE] is declared inside the
\* function bodies: automatic storage, one array per running call, that is
\* per thread
StackFrame(t) == t

\* verushash_create_context(): a fresh allocation per call
ThreadCreate ==
    \E t \in Threads :
        /\ thr[t].pc = "start"
        /\ thr' = [thr EXCEPT ![t] = [@ EXCEPT !.pc = "idle", !.ctx = NewContext]]
        /\ UNCHANGED <<aes_ni, temp_input, sequential>>

\* verushash_update up to the test of the full buffer
ThreadUpdateEnter ==
    \E t \in Threads :
        /\ thr[t].pc = "idle"
        /\ thr[t].calls < MaxUpdates
        /\ \E data \in {ThreadChunk(t, thr[t].ctx.total_len,
                                    ThreadChunkLen(t, thr[t].calls + 1))} :
           \E c \in {[thr[t].ctx EXCEPT !.total_len = @ + Len(data)]} :
           \E to_copy \in {IF c.buffer_len > 0
                           THEN Min(Len(data), VERUS_BLOCKSIZE - c.buffer_len)
                           ELSE 0} :
              thr' = [thr EXCEPT ![t] =
                        [@ EXCEPT
                           !.ctx = [c EXCEPT
                                      !.buffer = CopyIn(c.buffer, c.buffer_len,
                                                        data, 0, to_copy),
                                      !.buffer_len = c.buffer_len + to_copy],
                           !.data = data,
                           !.off = to_copy,
                           !.calls = @ + 1,
                           !.pc = IF c.buffer_len > 0
                                     /\ c.buffer_len + to_copy = VERUS_BLOCKSIZE
                                  THEN "buffer_xor" ELSE "loop"]]
        /\ UNCHANGED <<aes_ni, temp_input, sequential>>

\* the full buffer: state ^= buffer, then the state stored to temp_input
ThreadBufferXor ==
    \E t \in Threads :
        /\ thr[t].pc = "buffer_xor"
        /\ \E state \in {XorState(thr[t].ctx.state, thr[t].ctx.buffer)} :
              /\ thr' = [thr EXCEPT ![t] = [@ EXCEPT !.ctx.state = state,
                                                     !.pc = "buffer_perm"]]
              /\ temp_input' = [temp_input EXCEPT ![StackFrame(t)] = state]
        /\ UNCHANGED <<aes_ni, sequential>>

\* haraka512(temp_input, temp_output); lanes 0 and 1 reloaded; buffer_len = 0
ThreadBufferPermute ==
    \E t \in Threads :
        /\ thr[t].pc = "buffer_perm"
        /\ thr' = [thr EXCEPT ![t] =
                     [@ EXCEPT
                        !.ctx.state = OverwriteLow(thr[t].ctx.state,
                                          haraka512(aes_ni, temp_input[StackFrame(t)])),
                        !.ctx.buffer_len = 0,
                        !.pc = "loop"]]
        /\ UNCHANGED <<aes_ni, temp_input, sequential>>

\* while (len >= VERUS_BLOCKSIZE): state ^= the block at data, stored to temp_input
ThreadLoopXor ==
    \E t \in Threads :
        /\ thr[t].pc = "loop"
        /\ Len(thr[t].data) - thr[t].off >= VERUS_BLOCKSIZE
        /\ \E state \in {XorState(thr[t].ctx.state, BlockAt(thr[t].data, thr[t].off))} :
              /\ thr' = [thr EXCEPT ![t] = [@ EXCEPT !.ctx.state = state,
                                                     !.pc = "loop_perm"]]
              /\ temp_input' = [temp_input EXCEPT ![StackFrame(t)] = state]
        /\ UNCHANGED <<aes_ni, sequential>>

\* haraka512(temp_input, temp_output); lanes 0 and 1 reloaded; data += 64
ThreadLoopPermute ==
    \E t \in Threads :
        /\ thr[t].pc = "loop_perm"
        /\ thr' = [thr EXCEPT ![t] =
                     [@ EXCEPT
                        !.ctx.state = OverwriteLow(thr[t].ctx.state,
                                          haraka512(aes_ni, temp_input[StackFrame(t)])),
                        !.off = @ + VERUS_BLOCKSIZE,
                        !.pc = "loop"]]
        /\ UNCHANGED <<aes_ni, temp_input, sequential>>

\* the loop ends: the rest of data goes to the buffer and the call returns
ThreadUpdateReturn ==
    \E t \in Threads :
        /\ thr[t].pc = "loop"
        /\ Len(thr[t].data) - thr[t].off < VERUS_BLOCKSIZE
        /\ thr' = [thr EXCEPT ![t] =
                     [@ EXCEPT !.ctx = UpdateStore(thr[t].ctx, thr[t].data, thr[t].off),
                               !.data = <<>>,
                               !.off = 0,
                               !.pc = "idle"]]
        /\ UNCHANGED <<aes_ni, temp_input, sequential>>

\* verushash_finalize: the marker, then either the zero fill up to the length
\* field, or the zero fill of the whole block, XORed into the state and
\* stored to temp_input
ThreadFinalizeEnter ==
    \E t \in Threads :
        /\ thr[t].pc = "idle"
        /\ \E c \in {thr[t].ctx} :
           \E marked \in {[c.buffer EXCEPT ![c.buffer_len] = 128]} :
           \E len1 \in {c.buffer_len + 1} :
              IF len1 > VERUS_BLOCKSIZE - 8
              THEN \E buffer \in {ZeroFill(marked, len1, VERUS_BLOCKSIZE - len1)} :
                   \E state \in {XorState(c.state, buffer)} :
                      /\ thr' = [thr EXCEPT ![t] =
                                   [@ EXCEPT !.ctx = [c EXCEPT !.buffer = buffer,
                                                               !.buffer_len = len1,
                                                               !.state = state],
                                             !.pc = "extra_perm"]]
                      /\ temp_input' = [temp_input EXCEPT ![StackFrame(t)] = state]
              ELSE /\ thr' = [thr EXCEPT ![t] =
                                [@ EXCEPT
                                   !.ctx = [c EXCEPT
                                              !.buffer = ZeroFill(marked, len1,
                                                             VERUS_BLOCKSIZE - 8 - len1),
                                              !.buffer_len = len1],
                                   !.pc = "length"]]
                   /\ UNCHANGED temp_input
        /\ UNCHANGED <<aes_ni, sequential>>

\* haraka512 on the extra block; lanes 0 and 1 reloaded; the buffer cleared
ThreadExtraPermute ==
    \E t \in Threads :
        /\ thr[t].pc = "extra_perm"
        /\ thr' = [thr EXCEPT ![t] =
                     [@ EXCEPT
                        !.ctx.state = OverwriteLow(thr[t].ctx.state,
                                          haraka512(aes_ni, temp_input[StackFrame(t)])),
                        !.ctx.buffer = ZeroBlock,
                        !.ctx.buffer_len = 0,
                        !.pc = "length"]]
        /\ UNCHANGED <<aes_ni, temp_input, sequential>>

\* the length stored in bytes 56..63, the block XORed into the state, the
\* state stored to temp_input
ThreadLength ==
    \E t \in Threads :
        /\ thr[t].pc = "length"
        /\ \E buffer \in {StoreLength(thr[t].ctx.buffer,
                                      FinalizeBitLength(thr[t].ctx.total_len))} :
           \E state \in {XorState(thr[t].ctx.state, buffer)} :
              /\ thr' = [thr EXCEPT ![t] = [@ EXCEPT !.ctx.buffer = buffer,
                                                     !.ctx.state = state,
                                                     !.pc = "final_perm"]]
              /\ temp_input' = [temp_input EXCEPT ![StackFrame(t)] = state]
        /\ UNCHANGED <<aes_ni, sequential>>

\* haraka512(temp_input, output): the digest, and the call returns
ThreadFinalPermute ==
    \E t \in Threads :
        /\ thr[t].pc = "final_perm"
        /\ thr' = [thr EXCEPT ![t] =
                     [@ EXCEPT !.out = haraka512(aes_ni, temp_input[StackFrame(t)]),
                               !.pc = "done"]]
        /\ UNCHANGED <<aes_ni, temp_input, sequential>>

ConcNext ==
    \/ ThreadCreate
    \/ ThreadUpdateEnter
    \/ ThreadBufferXor
    \/ ThreadBufferPermute
    \/ ThreadLoopXor
    \/ ThreadLoopPermute
    \/ ThreadUpdateReturn
    \/ ThreadFinalizeEnter
    \/ ThreadExtraPermute
    \/ ThreadLength
    \/ ThreadFinalPermute

ConcSpec == Init /\ [][ConcNext]_vars

\* ------------------------------------------------------------ long inputs

\* the padded block of verushash_hash built from the remaining bytes and the
\* input_len argument: padded_block = {0}; memcpy(padded_block, data,
\* remaining); padded_block[remaining] = 0x80; the length over bytes 56..63
HashPaddedLong(rest, len) ==
    StoreLength([CopyIn(ZeroBlock, 0, rest, 0, Len(rest)) EXCEPT ![Len(rest)] = 128],
                HashBitLength(len))

\* the caller prepares an input of input_len bytes
PickLength ==
    /\ ~crashed
    /\ \E n \in LongLens :
          /\ input_len' = n
          /\ padded' = NoBlock
          /\ last' = [op |-> "pick", arg |-> "ok"]
    /\ UNCHANGED <<aes_ni, thr, temp_input, status, ctx, fed, out, perm, fin, late,
                   crashed, msg, seed, input>>

\* verushash_hash(input, output, input_len) on that input, followed up to
\* the padded block it builds from the last input_len mod 64 bytes; the
\* state after the full-block loop and the digest are left out.  Data has
\* period 256, so the position is taken modulo 256.
HashLong ==
    /\ ~crashed
    /\ input_len % VERUS_BLOCKSIZE > 0
    /\ \E remaining \in {input_len % VERUS_BLOCKSIZE} :
          padded' = HashPaddedLong([i \in 1..remaining |->
                                       Data(((input_len - remaining) % 256) + i - 1)],
                                   input_len)
    /\ last' = [op |-> "hash", arg |-> "long"]
    /\ UNCHANGED <<aes_ni, thr, temp_input, input_len, status, ctx, fed, out, perm,
                   fin, late, crashed, msg, seed, input>>

LengthNext == PickLength \/ HashLong

LengthSpec == Init /\ [][LengthNext]_vars

\* ------------------------------------------------------------ properties

\* a call of the given kind has just returned normally
Returned(op) == last = [op |-> op, arg |-> "ok"]

\* byte k (0..7) of the little-endian 64-bit value 8 * n, for 8 * n < 2^24
BitLengthByte(n, k) == IF k <= 2 THEN ((8 * n) \div (256 ^ k)) % 256 ELSE 0

\* bytes 56..63 of block hold 8 * n as a little-endian 64-bit value
HoldsBitLength(block, n) ==
    \A k \in 0..7 : block[VERUS_BLOCKSIZE - 8 + k] = BitLengthByte(n, k)

\* block is zero from offset from up to (not including) offset 56
ZeroUpToLength(block, from) ==
    \A i \in from..(VERUS_BLOCKSIZE - 8 - 1) : block[i] = 0

\* C1: the digest written by create; update(C1); ...; update(Cn); finalize
\* equals the digest verushash_hash writes for the bytes fed, for every
\* message and every partition of it into chunks.
StreamingEqualsSingleShot ==
    (Returned("finalize") /\ fin = 1) => out = verushash_hash(aes_ni, fed).digest

\* C2: a finalize that follows create_context directly, with no update call
\* in between, writes the digest verushash_hash writes for input_len = 0.
EmptyStreamEqualsEmptyHash ==
    [][(last.op = "create" /\ fin' = fin + 1)
          => out' = verushash_hash(aes_ni, <<>>).digest]_vars

\* the lengths around the block and padding boundaries
BoundaryLens == {55, 56, 63, 64, 65, 119, 120, 128}

\* C3: for inputs of exactly 55, 56, 63, 64, 65, 119, 120 and 128 bytes the
\* streaming path and verushash_hash write the same digest.
BoundaryLengthsAgree ==
    (Returned("finalize") /\ fin = 1 /\ Len(fed) \in BoundaryLens)
        => out = verushash_hash(aes_ni, fed).digest

\* C4: after verushash_finalize returns, the four state lanes and the
\* 64-byte buffer of the context are zero.
FinalizeZeroesContext ==
    Returned("finalize") => (ctx.state = ZeroBlock /\ ctx.buffer = ZeroBlock)

\* C5: an update on a context that was finalized is not accepted as
\* absorption: whatever it reports, it leaves buffer, buffer_len, total_len
\* and state as they were.
UpdateAfterFinalizeRejected ==
    [][(fin > 0 /\ last'.op = "update") => ctx' = ctx]_vars

\* C6: a finalize on a context that was finalized does not return normally
\* and writes nothing to the output buffer.
SecondFinalizeRejected ==
    [][(fin > 0 /\ last'.op = "finalize")
          => (last'.arg # "ok" /\ out' = out)]_vars

\* C7: a message that differs from another of the same length in one bit
\* gets a different digest from verushash_hash, and does not present the
\* same inputs to every permutation call.
DifferentMessagesDiffer ==
    (Returned("hash") /\ msg # BaseMessage(Len(msg)))
        => \A base \in {verushash_hash(aes_ni, BaseMessage(Len(msg)))} :
               out # base.digest /\ perm # base.perm

\* C8: for every remainder of 0 to 63 trailing bytes, the last block
\* verushash_hash XORs into the state is the trailing bytes, the marker 0x80
\* right after them, zeros up to offset 56, and the bit length of the input
\* in bytes 56..63.
HashLastBlockPadded ==
    Returned("hash")
        => /\ padded # NoBlock
           /\ \A i \in 0..((Len(msg) % VERUS_BLOCKSIZE) - 1) :
                  padded[i] = msg[Len(msg) - (Len(msg) % VERUS_BLOCKSIZE) + i + 1]
           /\ padded[Len(msg) % VERUS_BLOCKSIZE] = 128
           /\ ZeroUpToLength(padded, (Len(msg) % VERUS_BLOCKSIZE) + 1)
           /\ HoldsBitLength(padded, Len(msg))

\* the block finalize absorbs first when more than 55 bytes are buffered,
\* recovered from the input of its permutation call
FinalizeExtraBlock == [i \in BlockIdx |-> Xor8(perm'[1][i], ctx.state[i])]

PathsAgree ==
    Returned("haraka512")
        => (out = haraka512_aes_ni(input) /\ out = haraka512_software(input))

AloneUpdate(aes, t, n, c) ==
    verushash_update(aes, c, ThreadChunk(t, c.total_len, ThreadChunkLen(t, n))).ctx

RECURSIVE AloneContext(_, _, _)
AloneContext(aes, t, n) ==
    IF n = 0 THEN NewContext ELSE AloneUpdate(aes, t, n, AloneContext(aes, t, n - 1))

\* C12: two threads, each on its own context, do not disturb each other.
\* However their steps interleave, a thread between calls holds the context
\* its calls produce when run alone, and a thread whose finalize has
\* returned holds the digest its calls produce when run alone.
ContextsIndependent ==
    \A t \in Threads :
        /\ thr[t].pc = "idle"
               => thr[t].ctx = AloneContext(aes_ni, t, thr[t].calls)
        /\ thr[t].pc = "done"
               => thr[t].out
                    = verushash_finalize(aes_ni,
                                         AloneContext(aes_ni, t, thr[t].calls)).digest

\* C12, reached: thread 1 has made both updates and finalized while thread 2
\* was inside an update, between storing temp_input and permuting it.
ThreadFinishedInsideOtherCall ==
    /\ thr[1].pc = "done"
    /\ thr[1].calls = 2
    /\ thr[2].pc = "loop_perm"

\* C13: verushash_update with a non-null context, non-null data and length
\* zero changes nothing: an update that returns without having added a byte
\* to the stream leaves buffer, buffer_len, total_len and state as they
\* were, and calls the permutation not once.
UpdateZeroLengthNoOp ==
    [][(last'.op = "update" /\ last'.arg = "ok" /\ fed' = fed)
          => (ctx' = ctx /\ perm' = <<>>)]_vars

\* C13, reached: an update has returned on a fresh context and the stream
\* is still empty, so the call had length zero.
UpdateZeroLengthReturned ==
    /\ Returned("update")
    /\ fin = 0
    /\ fed = <<>>
    /\ ctx = NewContext

\* C14: on a context that was not finalized, buffer_len is between 0 and 63
\* after create and after every update; a full buffer is absorbed before
\* the call returns, so buffer_len never rests at 64.
BufferLenBelowBlock ==
    (status = "live" /\ fin = 0) => ctx.buffer_len \in 0..(VERUS_BLOCKSIZE - 1)

\* C14, reached: an update has left 63 bytes in the buffer.
BufferOneShortOfFull ==
    /\ Returned("update")
    /\ status = "live"
    /\ fin = 0
    /\ ctx.buffer_len = VERUS_BLOCKSIZE - 1

\* the absorption rule: lanes 0 and 1 (bytes 0..31) are the permutation
\* output on state XOR block, lanes 2 and 3 are old lane XOR block lane
AbsorbRule(aes, state, block) ==
    LET Rule(output) ==
            Eager([i \in BlockIdx |->
                IF i < 2 * 16 THEN output[i] ELSE Xor8(state[i], block[i])])
    IN  Rule(haraka512(aes, Eager([i \in BlockIdx |-> Xor8(state[i], block[i])])))

\* the rule applied to the complete 64-byte blocks of data from off on
RECURSIVE AbsorbAll(_, _, _, _)
AbsorbAll(aes, state, data, off) ==
    CASE DOMAIN state = BlockIdx ->
        IF Len(data) - off >= VERUS_BLOCKSIZE
        THEN AbsorbAll(aes, AbsorbRule(aes, state, BlockAt(data, off)), data,
                       off + VERUS_BLOCKSIZE)
        ELSE state

\* the block verushash_finalize absorbs first when no room is left for the
\* length: the buffered bytes, the marker, zero bytes
ExtraBlock(c) ==
    Eager([i \in BlockIdx |->
        IF i < c.buffer_len THEN c.buffer[i]
        ELSE IF i = c.buffer_len THEN 128 ELSE 0])

\* C15: every absorption site applies the one rule (XOR into all four
\* lanes, permutation on the result, lanes 0 and 1 overwritten by its
\* output, lanes 2 and 3 left at old lane XOR block lane).  On a context not
\* yet finalized the state is the rule folded over the complete blocks fed,
\* whichever of update's buffered and direct paths absorbed them; the
\* full-block loop of verushash_hash over the same bytes ends in the same
\* state; and the extra block of finalize is absorbed by the same rule.
AbsorptionUniform ==
    (status = "live" /\ fin = 0)
        => \E expected \in {AbsorbAll(aes_ni, InitialState, fed, 0)} :
              /\ ctx.state = expected
              /\ HashLoop(aes_ni, InitialState, fed, 0, <<>>).state = expected
              /\ ctx.buffer_len > VERUS_BLOCKSIZE - 8 - 1
                    => FinalizePad(aes_ni, ctx).ctx.state
                         = AbsorbRule(aes_ni, ctx.state, ExtraBlock(ctx))

\* C15, reached: 120 bytes were fed, one block is absorbed and 56 bytes sit
\* in the buffer, so that finalize would absorb an extra block.
AbsorbedAndExtraPending ==
    /\ Returned("update")
    /\ status = "live"
    /\ fin = 0
    /\ Len(fed) = 120
    /\ ctx.buffer_len = 56

\* C16: verushash_finalize absorbs an extra block before the final one
\* exactly when the buffer holds more than 55 bytes on entry: a finalize that
\* returns has called the permutation once when buffer_len was at most 55
\* and twice when it was 56..63.
FinalizePermutationCount ==
    [][(last'.op = "finalize" /\ last'.arg = "ok" /\ fin' = fin + 1)
          => Len(perm') = (IF ctx.buffer_len <= 55 THEN 1 ELSE 2)]_vars

\* C16, reached: the first finalize on a stream that left 55 bytes in the
\* buffer has returned after a single permutation call.
FinalizeSingleCallAtLimit ==
    /\ Returned("finalize")
    /\ fin = 1
    /\ Len(fed) % VERUS_BLOCKSIZE = 55
    /\ Len(perm) = 1

\* byte k (0..7) of the little-endian 64-bit value 8 * n, for n < 2^31
WideBitLengthByte(n, k) ==
    CASE k = 0 -> (n % 32) * 8
      [] k = 1 -> (n \div 32) % 256
      [] k = 2 -> (n \div 8192) % 256
      [] k = 3 -> (n \div 2097152) % 256
      [] k = 4 -> n \div 536870912
      [] OTHER -> 0

\* C17: whenever verushash_hash builds a padded final block, the 64-bit
\* length field in its bytes 56..63 is the exact bit length 8 * input_len,
\* and so the same eight bytes verushash_finalize writes for a total_len of
\* input_len.
HashLengthFieldExact ==
    last = [op |-> "hash", arg |-> "long"]
        => \A k \in 0..7 :
              /\ padded[VERUS_BLOCKSIZE - 8 + k] = WideBitLengthByte(input_len, k)
              /\ padded[VERUS_BLOCKSIZE - 8 + k]
                   = StoreLength(ZeroBlock, FinalizeBitLength(input_len))
                        [VERUS_BLOCKSIZE - 8 + k]

\* sixteen words viewed as four lanes of four words
WordLanes(st) ==
    <<[j \in 0..3 |-> st[j]], [j \in 0..3 |-> st[4 + j]],
      [j \in 0..3 |-> st[8 + j]], [j \in 0..3 |-> st[12 + j]]>>

\* C18: on odd rounds, and only on those, haraka512_software applies the
\* cyclic lane rotation of haraka512_aes_ni: with the sixteen words viewed as
\* four 4-word lanes, lane i takes the value of lane (i + 1) mod 4.  Stated
\* on the words the software path holds after the mixing step of round 1,
\* for every round number.
SoftwareRotatesLanes ==
    Returned("haraka512")
        => \E st \in {MixWords(SoftwareRound(LoadWords(input), 0))} :
              \A round \in 0..(VERUS_ROUNDS - 1) :
                  WordLanes(OddRoundWordRotate(st, round))
                      = OddRoundLaneRotate(WordLanes(st), round)

\* x rotated left / right by n bits, 0 < n < 32
Rotl32(x, n) == Or32(Shl32(x, n), Shr32(x, 32 - n))

Rotr32(x, n) == Or32(Shr32(x, n), Shl32(x, 32 - n))

\* C19: in a round of haraka512_software every word x becomes x rotated
\* left by 13, the result rotated right by 17, plus (mod 2^32) the
\* round-constant word i mod 8.  Stated on the sixteen words of the input
\* block, which are the words the first round works on.
SoftwareWordStepRotates ==
    Returned("haraka512")
        => \A i \in 0..15 :
              \E x \in {LoadWord(input, i)} :
                  RoundWord(x, i) = Add32(Rotr32(Rotl32(x, 13), 17), RCWord(i % 8))

\* C20: verushash_hash returns for every input length, having called the
\* permutation floor(input_len / 64) + 1 times: once per complete 64-byte
\* block and once for the final step.
HashPermutationCount ==
    Returned("hash") => Len(perm) = (Len(msg) \div VERUS_BLOCKSIZE) + 1

\* C20, reached: a 128-byte message was hashed with three permutation
\* calls, the last one on the state as the loop left it.
HashTwoBlocksThreeCalls ==
    /\ Returned("hash")
    /\ Len(msg) = 2 * VERUS_BLOCKSIZE
    /\ Len(perm) = 3
    /\ out # NoDigest

\* C21: calls with null arguments change nothing.  verushash_update with a
\* null context or null data leaves every context field as it was, and
\* verushash_finalize with a null context or null output calls the
\* permutation not once, writes no output and leaves the context as it was.
NullCallsChangeNothing ==
    [][(last'.op \in {"update", "finalize"}
            /\ last'.arg \in {"null_ctx", "null_data", "null_output"})
          => /\ ctx' = ctx
             /\ out' = out
             /\ perm' = <<>>
             /\ fed' = fed
             /\ fin' = fin
             /\ status' = status]_vars

\* C21, reached: finalize was called with a null output on a context holding
\* buffered bytes, and no digest has been written.
NullFinalizeOnBufferedContext ==
    /\ last = [op |-> "finalize", arg |-> "null_output"]
    /\ status = "live"
    /\ fin = 0
    /\ ctx.buffer_len > 0
    /\ ctx.total_len = ctx.buffer_len
    /\ out = NoDigest

\* C22: on a created context, after updates totalling T bytes, total_len is
\* T, buffer_len is T mod 64, the first buffer_len bytes of the buffer are
\* the last T mod 64 bytes supplied, and the state is the one verushash_hash
\* holds after its full-block loop over the first 64 * (T div 64) bytes.
StreamingInvariant ==
    (status = "live" /\ fin = 0)
        => \E T \in {Len(fed)} :
              /\ ctx.total_len = T
              /\ ctx.buffer_len = T % VERUS_BLOCKSIZE
              /\ \A i \in 0..((T % VERUS_BLOCKSIZE) - 1) :
                    ctx.buffer[i] = fed[T - (T % VERUS_BLOCKSIZE) + i + 1]
              /\ ctx.state
                   = HashLoop(aes_ni, InitialState,
                              SubSeq(fed, 1, VERUS_BLOCKSIZE * (T \div VERUS_BLOCKSIZE)),
                              0, <<>>).state

\* C22, reached: 71 bytes were fed, one block is absorbed and the last
\* seven bytes are buffered.
StreamSevenPastBlock ==
    /\ Returned("update")
    /\ status = "live"
    /\ fin = 0
    /\ Len(fed) = 71
    /\ ctx.buffer_len = 7
    /\ ctx.state # InitialState

\* C23: the streaming digest depends only on the concatenation of the
\* chunks.  The digest of the first finalize, whatever chunks (empty ones
\* included) the stream was fed in, is the digest obtained by feeding the
\* whole stream as one chunk; so any two partitions give the same digest.
PartitionIndependent ==
    (Returned("finalize") /\ fin = 1)
        => out = verushash_finalize(aes_ni,
                                    verushash_update(aes_ni, NewContext, fed).ctx).digest

\* C23, reached: a stream of 63 bytes, which no single chunk length gives,
\* was finalized.
FinalizedAfterSeveralChunks ==
    /\ Returned("finalize")
    /\ fin = 1
    /\ Len(fed) = 63
    /\ out # NoDigest

\* C24: for a message of length L with 1 <= L mod 64 <= 55 (and L below
\* 2^29), fed in any chunks, the streaming digest is the verushash_hash
\* digest of the message: both absorb the same single padded block, with the
\* marker at L mod 64 and the length 8 * L, both hand the permutation the
\* same last input, and the inputs the single-shot loop hands it for the
\* complete blocks are those of the stream fed as one chunk.
StreamingMatchesHashInRange ==
    (Returned("finalize") /\ fin = 1 /\ Len(fed) % VERUS_BLOCKSIZE \in 1..55)
        => \E h \in {verushash_hash(aes_ni, fed)} :
              /\ out = h.digest
              /\ padded = h.final
              /\ padded[Len(fed) % VERUS_BLOCKSIZE] = 128
              /\ HoldsBitLength(padded, Len(fed))
              /\ perm = <<h.perm[Len(h.perm)]>>
              /\ SubSeq(h.perm, 1, Len(h.perm) - 1)
                   = verushash_update(aes_ni, NewContext, fed).perm

\* C24, reached: a stream of 119 bytes, one complete block and 55 more,
\* was finalized.
FinalizedOneBlockAndTail ==
    /\ Returned("finalize")
    /\ fin = 1
    /\ Len(fed) = 119
    /\ Len(perm) = 1
    /\ out # NoDigest

\* C25: on a live context, whatever update and finalize calls were made, an
\* earlier finalize included, buffer_len is at most 63 when a call is
\* entered and when it returns, so the chunk copy, the marker, the zero
\* fill and the length field stay inside the 64-byte buffer, and the zero
\* fill of finalize never has a negative length.
WritesStayInBuffer ==
    [][(status = "live" /\ last'.op \in {"update", "finalize"})
          => /\ ctx.buffer_len \in 0..(VERUS_BLOCKSIZE - 1)
             /\ ctx'.buffer_len \in 0..(VERUS_BLOCKSIZE - 1)
             /\ last'.op = "finalize"
                   => (IF ctx.buffer_len + 1 > VERUS_BLOCKSIZE - 8
                       THEN VERUS_BLOCKSIZE - (ctx.buffer_len + 1) >= 0
                       ELSE VERUS_BLOCKSIZE - 8 - (ctx.buffer_len + 1) >= 0)]_vars

\* C25, reached: after a finalize that left 56 bytes in the buffer, an
\* update has added one more.
UpdateAfterFinalizeBuffered ==
    /\ Returned("update")
    /\ status = "live"
    /\ fin = 1
    /\ late = 1
    /\ ctx.buffer_len = 57
====
